---- MODULE Spec2Model ----
(***************************************************************************)
(* The ROM library scanner of PES (python/pes/romscan.py): the Monitor     *)
(* (RomScanMonitorThread), the Orchestrator (RomScanThread), the worker    *)
(* processes (RomProcess) and the Scan Task (GamesDbRomTask), together     *)
(* with the Game table they read and write (python/pes/sql.py).            *)
(*                                                                         *)
(* Threads and processes are interleaved at the statements that touch      *)
(* shared state: the orchestrator's fields, the task queue, the stop       *)
(* event, the result queue, the lock and the database.                     *)
(***************************************************************************)
EXTENDS Integers, Sequences, FiniteSets, TLC

\* ---------------------------------------------------------------- bounds
MaxRoms == 2            \* ROM files that may exist under the console's directory
RomProcessTotal == 2    \* worker processes (cpu_count() * 2 in the source)
MaxRuns == 2            \* invocations of the Monitor's run()
MaxStops == 1           \* invocations of stop()
MaxShots == 4           \* screenshot entries of a descriptive catalog entry

\* ------------------------------------------------------ program constants
STATE_ADDED == 1
STATE_UPDATED == 2
STATE_FAILED == 3
STATE_SKIPPED == 4
Pill == 0               \* the None item put on the task queue

Paths == 1..MaxRoms
Procs == 1..RomProcessTotal
NoQueue == <<-1>>       \* self.__tasks == None
NoRow == 0              \* query(...).first() returned None

VARIABLES
    romFiles,       \* the files under <romsDir>/<console>/
    game,           \* committed rows of the Game table
    pending,        \* the orchestrator's session holds an uncommitted bulk update
    scanThread,     \* Monitor.__scanThread is not None
    mpc,            \* position of the Monitor's run()
    runs,           \* RomScanThread objects created so far
    fullscan,       \* RomScanThread.__fullscan
    started, done, interrupted, processStarted,
    romTotal, added, updated, skipped, failed, deleted,
    progressMessage,    \* the last text emitted with progressMessageSignal
    tasks,          \* RomScanThread.__tasks (JoinableQueue), head first
    unfinished,     \* the JoinableQueue's count of unacknowledged items
    exitEvent,      \* "none" (None), "clear" or "set"
    results,        \* the result queue, head first
    rpc,            \* position of RomScanThread.run
    wpc, wtask, wres, wrow, wnew, wstate,   \* per worker process
    wfront,         \* per worker: how the front cover-art loop ended (imgSaved)
    lock,           \* holder of the multiprocessing.Lock, 0 when free
    spc, stops,     \* position of a stop() call, calls made so far
    stopRaised,     \* a stop() call ended with an exception
    states,         \* state names emitted by the current RomScanThread
    pre,            \* history: the Game table when the run was created
    executed,       \* history: paths whose task.run() was called in this run
    acked,          \* history: paths acknowledged without running
    raisedCnt,      \* history: tasks that raised in this run
    deletedRows,    \* history: rows deleted by the reconciliation of this run
    stopsAtCreate,  \* history: value of stops when the run was created
    cleanPrev,      \* history: the previous run completed and stop() was never called during it
    fsChanged,      \* history: the files changed since the previous run was created
    stopIdle,       \* history: the last stop() was called while no run was active
    names,          \* per ROM path: the file's base name and extension, whether
                    \* ignore_roms lists the path, and for descriptive entry p its
                    \* name, whether it has front cover URLs and its platformId
    loop            \* one run of an image loop of the enrichment, or NoLoop

orch == <<started, done, interrupted, processStarted, romTotal, added, updated,
          skipped, failed, deleted, progressMessage>>
wvars == <<wpc, wtask, wres, wrow, wnew, wstate, wfront>>
hist == <<pre, executed, acked, raisedCnt, deletedRows, stopsAtCreate, cleanPrev, fsChanged,
          stopIdle>>
vars == <<romFiles, game, pending, scanThread, mpc, runs, fullscan, orch, tasks,
          unfinished, exitEvent, results, rpc, wvars, lock, spc, stops, stopRaised,
          states, hist, names, loop>>

\* ------------------------------------------------------------ the catalogs
\* One console with a scanner section, a platform and a retroId is configured.
\* The reference catalogs are static during a scan.  A ROM p with
\* p % 3 = 1 has a checksum in the achievement catalog whose entry is paired
\* with the descriptive entry p.  The descriptive catalog has one entry per
\* number in Paths; whether a ROM matches one by name is computed from the
\* names as the query of the name search computes it.
RetroMatch(p) == p % 3 = 1

\* Names are sequences of characters: "R", "r", "G", "g", " " and digits are
\* ASCII, "Eacute" and "eacute" are the capital and the small form of one
\* letter outside ASCII.  romName is the file name of ROM p without its
\* extension; EntryName(e) is GamesDbGame.name of entry e.
RomName(p) == names[p].file
EntryName(e) == names[e].entry

AsciiLower(c) == IF c = "R" THEN "r" ELSE IF c = "G" THEN "g" ELSE c

\* str.lower() of Python folds every cased letter
PyLower(c) == IF c = "Eacute" THEN "eacute" ELSE AsciiLower(c)

\* lower() of SQLite folds the ASCII letters and leaves every other character
SqlLower(c) == AsciiLower(c)

\* replace(" ", "") in Python, replace(name, " ", "") in SQLite
RECURSIVE NoSpaces(_)
NoSpaces(s) ==
    IF s = <<>> THEN <<>>
    ELSE IF Head(s) = " " THEN NoSpaces(Tail(s))
    ELSE <<Head(s)>> \o NoSpaces(Tail(s))

\* romName.replace(" ", "").lower()
PyNormalize(s) == [i \in 1..Len(NoSpaces(s)) |-> PyLower(NoSpaces(s)[i])]

\* func.lower(func.replace(GamesDbGame.name, " ", ""))
SqlNormalize(s) == [i \in 1..Len(NoSpaces(s)) |-> SqlLower(NoSpaces(s)[i])]

\* the entries selected by the filter of the name search
NameMatches(p) == {e \in Paths : SqlNormalize(EntryName(e)) = PyNormalize(RomName(p))}
NameMatch(p) == NameMatches(p) # {}

\* .first(): the entry with the lowest id
GamesDbIdOf(p) ==
    IF RetroMatch(p) THEN p
    ELSE IF NameMatch(p) THEN CHOOSE e \in NameMatches(p) : \A f \in NameMatches(p) : e <= f
    ELSE 0
\* "if game.gamesDbGame:" and "if len(urls) > 0:": the game has a descriptive
\* entry and the entry has at least one front cover URL
HasFrontUrl(gid) == gid # 0 /\ names[gid].front
HasBackUrl(gid) == gid # 0
ScreenshotsOf(gid) == IF gid # 0 THEN 1 ELSE 0

\* Cover-art values of a Game row: NULL, the console's default image
\* (_getNocoverart()), or the path of a downloaded image.
NoArt == "null"
Nocoverart == "nocoverart"
ArtPath == "path"

\* ------------------------------------------------------------ the database
Max(S) == CHOOSE x \in S : \A y \in S : y <= x
Min(S) == CHOOSE x \in S : \A y \in S : x <= y

NameForFile(p) == RomName(p)

\* name=gamesDbGame.name for a checksum or name match, name=romName otherwise
NameFor(p) == IF GamesDbIdOf(p) # 0 THEN EntryName(GamesDbIdOf(p)) ELSE RomName(p)

CoverForNull(p) == NoArt

\* The Game built after a checksum match has no coverartFront; the two other
\* constructors pass coverartFront=self._getNocoverart().
CoverFor(p) == IF RetroMatch(p) THEN NoArt ELSE Nocoverart

NewGameNotFound(g, p) ==
    [id |-> IF g = {} THEN 1 ELSE Max({r.id : r \in g}) + 1,
     path |-> p, found |-> FALSE, gamesDbId |-> GamesDbIdOf(p),
     name |-> NameFor(p), coverartFront |-> CoverFor(p), coverartBack |-> FALSE,
     screenshots |-> 0]

\* pes.sql.Game(..., path=self._rom, ..., found=True) and the id it is given
NewGame(g, p) ==
    [id |-> IF g = {} THEN 1 ELSE Max({r.id : r \in g}) + 1,
     path |-> p, found |-> TRUE, gamesDbId |-> GamesDbIdOf(p),
     name |-> NameFor(p), coverartFront |-> CoverFor(p), coverartBack |-> FALSE,
     screenshots |-> 0]

LookupByPathNone(g, p) == NoRow

LookupByPath(g, p) ==
    LET m == {r.id : r \in {x \in g : x.path = p}}
    IN IF m = {} THEN NoRow ELSE Min(m)

MarkFound(g, id) ==
    {IF r.id = id THEN [r EXCEPT !.found = TRUE] ELSE r : r \in g}

NotFound(g) == {r \in g : ~r.found}

SessionCloseCommit(g, pend) ==
    IF pend THEN {[r EXCEPT !.found = FALSE] : r \in g} ELSE g

\* Session.close() without a commit() discards what the session executed.
SessionClose(g, pend) == g

\* filter(not pes.sql.Game.found): Python's "not" of the column attribute is
\* the constant False, so the filter selects no row.
RestoreFilter(g) == {}

RestoreFound(g) ==
    {IF r \in RestoreFilter(g) THEN [r EXCEPT !.found = TRUE] ELSE r : r \in g}

\* --------------------------------------------------------- worker results
ZeroResult == [added |-> 0, updated |-> 0, failed |-> 0, skipped |-> 0]

addRomTaskResultDrop(res, st) ==
    IF st = STATE_UPDATED THEN [res EXCEPT !.updated = @ + 1]
    ELSE IF st = STATE_ADDED THEN [res EXCEPT !.added = @ + 1]
    ELSE IF st = STATE_FAILED THEN [res EXCEPT !.failed = @ + 1]
    ELSE res

\* RomProcessResult.addRomTaskResult
addRomTaskResult(res, st) ==
    IF st = STATE_UPDATED THEN [res EXCEPT !.updated = @ + 1]
    ELSE IF st = STATE_ADDED THEN [res EXCEPT !.added = @ + 1]
    ELSE IF st = STATE_FAILED THEN [res EXCEPT !.failed = @ + 1]
    ELSE [res EXCEPT !.skipped = @ + 1]

ProcessResult(res) == [kind |-> "process", res |-> res]
TaskResult == [kind |-> "task", res |-> ZeroResult]

\* ---------------------------------------------------------------- progress
\* Fractions are pairs <<numerator, denominator>>.
isRunning == started /\ ~done

getProgress ==
    IF ~isRunning /\ done THEN <<1, 1>>
    ELSE IF ~started \/ tasks = NoQueue \/ romTotal = 0 \/ ~processStarted THEN <<0, 1>>
    ELSE IF Len(tasks) = 0 THEN <<1, 1>>
    ELSE IF Len(tasks) <= RomProcessTotal THEN <<1, 1>>
    ELSE <<romTotal - (Len(tasks) - RomProcessTotal), romTotal>>

Leq(a, b) == a[1] * b[2] <= b[1] * a[2]

\* ------------------------------------------------------------------- Init
RECURSIVE SeqOf(_)
SeqOf(S) == IF S = {} THEN <<>> ELSE <<Min(S)>> \o SeqOf(S \ {Min(S)})

RECURSIVE Sum(_, _)
Sum(q, f) == IF q = <<>> THEN 0 ELSE q[1].res[f] + Sum(Tail(q), f)

\* A library left by earlier scans: one row per scanned path, found = true
\* as every insert and every rediscovery writes it; the rows are those of a
\* scan whose downloads all failed.
ScannedLibrary(S) ==
    {[id |-> Cardinality({q \in S : q <= p}), path |-> p, found |-> TRUE,
      gamesDbId |-> GamesDbIdOf(p), name |-> NameFor(p),
      coverartFront |-> Nocoverart, coverartBack |-> FALSE, screenshots |-> 0] : p \in S}

\* The character of the number p in a name.
Digit(p) == <<"1", "2", "3", "4", "5", "6", "7", "8", "9">>[p]

\* Console.gamesDbId: the external-catalog platform of the scanned console
ConsoleGamesDbId == 1

\* The library used by the scans: the file of ROM p is "r<p>.ro", which the
\* console's extensions accept, and no path is in ignore_roms; every
\* descriptive entry has front cover URLs and belongs to the console's platform; the
\* descriptive entry p is "R <p>" when p is a multiple of 3, which matches the
\* file by name, and "G<p>" otherwise, which does not.
LibraryNames ==
    [p \in Paths |->
        [file |-> <<"r", Digit(p)>>,
         ext |-> <<".", "r", "o">>,
         ignore |-> FALSE,
         front |-> TRUE,
         platform |-> ConsoleGamesDbId,
         entry |-> IF p % 3 = 0 THEN <<"R", " ", Digit(p)>> ELSE <<"G", Digit(p)>>]]

\* No image loop is being followed.
NoLoop == [pc |-> "none"]

\* Before the first scan: no scan thread, no queue, no worker, no stop().
Quiescent ==
    /\ pending = FALSE
    /\ scanThread = FALSE
    /\ mpc = "idle"
    /\ runs = 0
    /\ fullscan = FALSE
    /\ started = FALSE /\ done = FALSE /\ interrupted = FALSE /\ processStarted = FALSE
    /\ romTotal = 0 /\ added = 0 /\ updated = 0 /\ skipped = 0 /\ failed = 0 /\ deleted = 0
    /\ progressMessage = ""
    /\ tasks = NoQueue
    /\ unfinished = 0
    /\ exitEvent = "none"
    /\ results = <<>>
    /\ rpc = "none"
    /\ wpc = [w \in Procs |-> "new"]
    /\ wtask = [w \in Procs |-> Pill]
    /\ wres = [w \in Procs |-> ZeroResult]
    /\ wrow = [w \in Procs |-> NoRow]
    /\ wnew = [w \in Procs |-> TRUE]
    /\ wstate = [w \in Procs |-> STATE_FAILED]
    /\ wfront = [w \in Procs |-> "none"]
    /\ lock = 0
    /\ spc = "idle" /\ stops = 0 /\ stopRaised = FALSE
    /\ states = <<>>
    /\ pre = {} /\ executed = {} /\ acked = {} /\ raisedCnt = 0 /\ deletedRows = {}
    /\ stopsAtCreate = 0 /\ cleanPrev = FALSE /\ fsChanged = FALSE /\ stopIdle = FALSE

Init ==
    /\ names = LibraryNames
    /\ loop = NoLoop
    /\ romFiles \in SUBSET Paths
    /\ \E S \in SUBSET Paths : game = ScannedLibrary(S)
    /\ Quiescent

\* ------------------------------------------------------------ the Monitor
\* RomScanMonitorThread.run up to self.__scanThread.start(): a new
\* RomScanThread is constructed and its thread started.  Scans are run one
\* after the other: the caller starts the next one when the previous scan
\* thread has ended and no stop() call is in progress.
MonitorRun ==
    /\ mpc = "idle" /\ spc = "idle"
    /\ rpc \in {"none", "finished"}
    /\ runs < MaxRuns
    /\ scanThread' = TRUE
    /\ mpc' = "loop"
    /\ runs' = runs + 1
    /\ fullscan' \in BOOLEAN
    /\ started' = FALSE /\ done' = FALSE /\ interrupted' = FALSE /\ processStarted' = FALSE
    /\ romTotal' = 0 /\ added' = 0 /\ updated' = 0 /\ skipped' = 0 /\ failed' = 0
    /\ deleted' = 0 /\ progressMessage' = ""
    /\ tasks' = NoQueue /\ unfinished' = 0 /\ exitEvent' = "none" /\ results' = <<>>
    /\ rpc' = "emitStarted"
    /\ wpc' = [w \in Procs |-> "new"]
    /\ wtask' = [w \in Procs |-> Pill]
    /\ wres' = [w \in Procs |-> ZeroResult]
    /\ wrow' = [w \in Procs |-> NoRow]
    /\ wnew' = [w \in Procs |-> TRUE]
    /\ wstate' = [w \in Procs |-> STATE_FAILED]
    /\ wfront' = [w \in Procs |-> "none"]
    /\ states' = <<>>
    /\ pre' = game /\ executed' = {} /\ acked' = {} /\ raisedCnt' = 0 /\ deletedRows' = {}
    /\ stopsAtCreate' = stops
    /\ cleanPrev' = (rpc = "finished" /\ stops = stopsAtCreate /\ ~fsChanged)
    /\ fsChanged' = FALSE
    /\ UNCHANGED <<romFiles, game, pending, lock, spc, stops, stopRaised, stopIdle, names,
                   loop>>

\* The polling loop of RomScanMonitorThread.run: it leaves when the scan
\* thread has started and is no longer running.
MonitorLoop ==
    /\ mpc = "loop"
    /\ started /\ ~isRunning
    /\ mpc' = "idle"
    /\ UNCHANGED <<romFiles, game, pending, scanThread, runs, fullscan, orch, tasks,
                   unfinished, exitEvent, results, rpc, wvars, lock, spc, stops,
                   stopRaised, states, hist, names, loop>>

\* Between two scans a ROM file is added to or removed from the directory.
ChangeFiles ==
    /\ mpc = "idle" /\ rpc = "finished" /\ runs < MaxRuns /\ ~fsChanged
    /\ \E p \in Paths : romFiles' = IF p \in romFiles THEN romFiles \ {p} ELSE romFiles \cup {p}
    /\ fsChanged' = TRUE
    /\ UNCHANGED <<game, pending, scanThread, mpc, runs, fullscan, orch, tasks,
                   unfinished, exitEvent, results, rpc, wvars, lock, spc, stops,
                   stopRaised, states, pre, executed, acked, raisedCnt, deletedRows,
                   stopsAtCreate, cleanPrev, stopIdle, names, loop>>

\* ------------------------------------------------- RomScanThread.run
env == <<romFiles, scanThread, mpc, runs, fullscan, names, loop>>
stopv == <<spc, stops, stopRaised>>
counters == <<added, updated, skipped, failed, progressMessage>>
runhist == <<pre, executed, acked, raisedCnt, stopsAtCreate, cleanPrev, fsChanged, stopIdle>>

\* self.stateChangeSignal.emit("started")
RunEmitStarted ==
    /\ rpc = "emitStarted"
    /\ states' = Append(states, "started")
    /\ rpc' = "resetDone"
    /\ UNCHANGED <<env, game, pending, orch, tasks, unfinished, exitEvent, results,
                   wvars, lock, stopv, hist>>

\* self.__done = False
RunResetDone ==
    /\ rpc = "resetDone"
    /\ done' = FALSE
    /\ rpc' = "setStarted"
    /\ UNCHANGED <<env, game, pending, started, interrupted, processStarted, romTotal,
                   counters, deleted, tasks, unfinished, exitEvent, results, wvars,
                   lock, stopv, states, hist>>

\* self.__started = True
RunSetStarted ==
    /\ rpc = "setStarted"
    /\ started' = TRUE
    /\ rpc' = "reset"
    /\ UNCHANGED <<env, game, pending, done, interrupted, processStarted, romTotal,
                   counters, deleted, tasks, unfinished, exitEvent, results, wvars,
                   lock, stopv, states, hist>>

\* self.__interrupted = False and the counters set to 0
RunReset ==
    /\ rpc = "reset"
    /\ interrupted' = FALSE
    /\ romTotal' = 0 /\ added' = 0 /\ updated' = 0 /\ skipped' = 0 /\ failed' = 0
    /\ deleted' = 0
    /\ rpc' = "create"
    /\ UNCHANGED <<env, game, pending, started, done, processStarted, progressMessage,
                   tasks, unfinished, exitEvent, results, wvars, lock, stopv, states,
                   hist>>

\* the lock, the task queue, the stop event and the result queue are created
RunCreate ==
    /\ rpc = "create"
    /\ tasks' = <<>>
    /\ unfinished' = 0
    /\ exitEvent' = "clear"
    /\ results' = <<>>
    /\ rpc' = "mark"
    /\ UNCHANGED <<env, game, pending, orch, wvars, lock, stopv, states, hist>>

\* session.query(Game).update({Game.found: False}), executed in the session's
\* transaction and not committed
RunMarkNotFound ==
    /\ rpc = "mark"
    /\ pending' = TRUE
    /\ rpc' = "enumerate"
    /\ UNCHANGED <<env, game, orch, tasks, unfinished, exitEvent, results, wvars,
                   lock, stopv, states, hist>>

\* The console's "extensions" setting, as ConsoleSettings.get returns it: the
\* value ".ro, .sm" split at the commas.
Extensions == << <<".", "r", "o">>, <<" ", ".", "s", "m">> >>

\* The name of the file of ROM p and whether "ignore_roms" lists its path.
FileName(p) == names[p].file \o names[p].ext
Ignored(p) == names[p].ignore

\* str.strip(): leading and trailing blanks are removed
RECURSIVE LStrip(_)
LStrip(s) == IF s # <<>> /\ Head(s) = " " THEN LStrip(Tail(s)) ELSE s
RECURSIVE RStrip(_)
RStrip(s) ==
    IF s # <<>> /\ s[Len(s)] = " " THEN RStrip(SubSeq(s, 1, Len(s) - 1)) ELSE s
Strip(s) == RStrip(LStrip(s))

\* str.upper() on the letters of the extensions
PyUpper(c) ==
    IF c = "r" THEN "R" ELSE IF c = "o" THEN "O"
    ELSE IF c = "s" THEN "S" ELSE IF c = "m" THEN "M" ELSE c
Upper(s) == [i \in 1..Len(s) |-> PyUpper(s[i])]

\* str.endswith
EndsWith(s, e) ==
    Len(e) <= Len(s) /\ SubSeq(s, Len(s) - Len(e) + 1, Len(s)) = e

\* RomScanThread.__extensionOk
extensionOk(extensions, filename) ==
    \E k \in 1..Len(extensions) :
        LET e == Strip(extensions[k])
        IN EndsWith(filename, e) \/ EndsWith(filename, Upper(e))

\* the files of the directory that get a task:
\* "(ignoreRoms == None or f not in ignoreRoms) and self.__extensionOk(extensions, f)"
Kept(files) == {p \in files : ~Ignored(p) /\ extensionOk(Extensions, FileName(p))}

\* the loop over the consoles: one task per kept file; the directory is read
\* in path order
RunEnumerate ==
    /\ rpc = "enumerate"
    /\ tasks' = tasks \o SeqOf(Kept(romFiles))
    /\ unfinished' = unfinished + Cardinality(Kept(romFiles))
    /\ romTotal' = romTotal + Cardinality(Kept(romFiles))
    /\ rpc' = "close"
    /\ UNCHANGED <<env, game, pending, started, done, interrupted, processStarted,
                   counters, deleted, exitEvent, results, wvars, lock, stopv, states,
                   hist>>

NoRomsNever(total) == FALSE

\* "if self.__romTotal == 0:"
NoRoms(total) == total = 0

ClosedNever(open) == open

\* After session.close() the orchestrator's session holds no transaction.
Closed(open) == FALSE

\* session.close(), then the test of self.__romTotal; with no task enqueued
\* progressMessageSignal.emit("No ROMs found")
RunCloseSession ==
    /\ rpc = "close"
    /\ game' = SessionClose(game, pending)
    /\ pending' = Closed(pending)
    /\ rpc' = IF NoRoms(romTotal) THEN "setDone" ELSE "emitUpdate"
    /\ progressMessage' = IF NoRoms(romTotal) THEN "No ROMs found" ELSE progressMessage
    /\ UNCHANGED <<env, started, done, interrupted, processStarted, romTotal, added,
                   updated, skipped, failed, deleted, tasks, unfinished, exitEvent,
                   results, wvars, lock, stopv, states, hist>>

\* self.stateChangeSignal.emit("update") and
\* progressMessageSignal.emit("Found %d ROMs, update in progress")
RunEmitUpdate ==
    /\ rpc = "emitUpdate"
    /\ states' = Append(states, "update")
    /\ progressMessage' = "Found ROMs"
    /\ rpc' = "pills"
    /\ UNCHANGED <<env, game, pending, started, done, interrupted, processStarted,
                   romTotal, added, updated, skipped, failed, deleted, tasks,
                   unfinished, exitEvent, results, wvars, lock, stopv, hist>>

PillsShort(n) == [i \in 1..(n - 1) |-> Pill]

\* for i in range(self.__romProcessTotal): self.__tasks.put(None)
Pills(n) == [i \in 1..n |-> Pill]

\* one None per worker is appended to the queue
RunAddPills ==
    /\ rpc = "pills"
    /\ tasks' = tasks \o Pills(RomProcessTotal)
    /\ unfinished' = unfinished + Len(Pills(RomProcessTotal))
    /\ rpc' = "startProcs"
    /\ UNCHANGED <<env, game, pending, orch, exitEvent, results, wvars, lock, stopv,
                   states, hist>>

\* self.__processStarted = True and p.start() for every worker
RunStartProcesses ==
    /\ rpc = "startProcs"
    /\ processStarted' = TRUE
    /\ wpc' = [w \in Procs |-> "get"]
    /\ wres' = [w \in Procs |-> ZeroResult]
    /\ rpc' = "join"
    /\ UNCHANGED <<env, game, pending, started, done, interrupted, romTotal, counters,
                   deleted, tasks, unfinished, exitEvent, results, wtask, wrow, wnew,
                   wstate, wfront, lock, stopv, states, hist>>

\* p.join() for every worker, then self.__tasks.join()
RunJoin ==
    /\ rpc = "join"
    /\ \A w \in Procs : wpc[w] = "exited"
    /\ unfinished = 0
    /\ rpc' = "drain"
    /\ UNCHANGED <<env, game, pending, orch, tasks, unfinished, exitEvent, results,
                   wvars, lock, stopv, states, hist>>

\* The result queue is drained; every item is read as a RomProcessResult.  An
\* item that is a RomTaskResult has no attribute "added": the read raises
\* AttributeError and run() ends there.
FirstTaskResult(q) ==
    IF \E i \in 1..Len(q) : q[i].kind = "task"
    THEN Min({i \in 1..Len(q) : q[i].kind = "task"})
    ELSE 0

RunDrain ==
    /\ rpc = "drain"
    /\ LET k == FirstTaskResult(results)
           read == IF k = 0 THEN results ELSE SubSeq(results, 1, k - 1)
       IN /\ added' = added + Sum(read, "added")
          /\ updated' = updated + Sum(read, "updated")
          /\ failed' = failed + Sum(read, "failed")
          /\ skipped' = skipped + Sum(read, "skipped")
          /\ results' = IF k = 0 THEN <<>> ELSE SubSeq(results, k + 1, Len(results))
          /\ rpc' = IF k = 0 THEN "reconcile" ELSE "crashed"
    /\ UNCHANGED <<env, game, pending, started, done, interrupted, processStarted,
                   romTotal, deleted, progressMessage, tasks, unfinished, exitEvent,
                   wvars, lock, stopv, states, hist>>

\* The reconciliation pass with its commit: the found flags are restored when
\* the run was interrupted, the rows with found = false are counted and
\* deleted otherwise.
RunReconcile ==
    /\ rpc = "reconcile"
    /\ IF interrupted
       THEN /\ game' = RestoreFound(game)
            /\ UNCHANGED <<deleted, deletedRows>>
       ELSE /\ deleted' = Cardinality(NotFound(game))
            /\ game' = game \ NotFound(game)
            /\ deletedRows' = NotFound(game)
    /\ rpc' = "setDone"
    /\ UNCHANGED <<env, pending, started, done, interrupted, processStarted, romTotal,
                   counters, tasks, unfinished, exitEvent, results, wvars, lock,
                   stopv, states, runhist>>

\* self.__done = True
RunSetDone ==
    /\ rpc = "setDone"
    /\ done' = TRUE
    /\ rpc' = "emitDone"
    /\ UNCHANGED <<env, game, pending, started, interrupted, processStarted, romTotal,
                   counters, deleted, tasks, unfinished, exitEvent, results, wvars,
                   lock, stopv, states, hist>>

\* self.stateChangeSignal.emit("done"); run() returns
RunEmitDone ==
    /\ rpc = "emitDone"
    /\ states' = Append(states, "done")
    /\ rpc' = "finished"
    /\ UNCHANGED <<env, game, pending, orch, tasks, unfinished, exitEvent, results,
                   wvars, lock, stopv, hist>>

Run ==
    \/ RunEmitStarted \/ RunResetDone \/ RunSetStarted \/ RunReset \/ RunCreate
    \/ RunMarkNotFound \/ RunEnumerate \/ RunCloseSession \/ RunEmitUpdate
    \/ RunAddPills \/ RunStartProcesses \/ RunJoin \/ RunDrain \/ RunReconcile
    \/ RunSetDone \/ RunEmitDone

\* ------------------------------------------------- RomScanThread.stop
\* Monitor.stop forwards to the scan thread's stop(), which runs in the
\* caller's thread: the test of __started and __done
StopCheck ==
    /\ spc = "idle"
    /\ scanThread
    /\ stops < MaxStops
    /\ stops' = stops + 1
    /\ spc' = IF started /\ ~done THEN "interrupt" ELSE "setDone"
    /\ stopIdle' = (rpc = "finished")
    /\ UNCHANGED <<env, game, pending, orch, tasks, unfinished, exitEvent, results,
                   rpc, wvars, lock, stopRaised, states, pre, executed, acked,
                   raisedCnt, deletedRows, stopsAtCreate, cleanPrev, fsChanged>>

\* RomScanMonitorThread.stop while self.__scanThread is None: nothing is done
MonitorStopIdle ==
    /\ spc = "idle"
    /\ ~scanThread
    /\ stops < MaxStops
    /\ stops' = stops + 1
    /\ stopIdle' = TRUE
    /\ UNCHANGED <<env, game, pending, orch, tasks, unfinished, exitEvent, results,
                   rpc, wvars, lock, spc, stopRaised, states, pre, executed, acked,
                   raisedCnt, deletedRows, stopsAtCreate, cleanPrev, fsChanged>>

\* self.__interrupted = True
StopSetInterrupted ==
    /\ spc = "interrupt"
    /\ interrupted' = TRUE
    /\ spc' = "event"
    /\ UNCHANGED <<env, game, pending, started, done, processStarted, romTotal,
                   counters, deleted, tasks, unfinished, exitEvent, results, rpc,
                   wvars, lock, stops, stopRaised, states, hist>>

\* self.__exitEvent.set(); AttributeError while __exitEvent is still None
StopSetEvent ==
    /\ spc = "event"
    /\ IF exitEvent = "none"
       THEN /\ stopRaised' = TRUE
            /\ spc' = "idle"
            /\ UNCHANGED exitEvent
       ELSE /\ exitEvent' = "set"
            /\ spc' = "emit"
            /\ UNCHANGED stopRaised
    /\ UNCHANGED <<env, game, pending, orch, tasks, unfinished, results, rpc, wvars,
                   lock, stops, states, hist>>

\* the else branch: self.__done = True
StopSetDone ==
    /\ spc = "setDone"
    /\ done' = TRUE
    /\ spc' = "emit"
    /\ UNCHANGED <<env, game, pending, started, interrupted, processStarted, romTotal,
                   counters, deleted, tasks, unfinished, exitEvent, results, rpc,
                   wvars, lock, stops, stopRaised, states, hist>>

\* self.stateChangeSignal.emit("stopped")
StopEmit ==
    /\ spc = "emit"
    /\ states' = Append(states, "stopped")
    /\ spc' = "idle"
    /\ UNCHANGED <<env, game, pending, orch, tasks, unfinished, exitEvent, results,
                   rpc, wvars, lock, stops, stopRaised, hist>>

Stop ==
    \/ StopCheck \/ MonitorStopIdle \/ StopSetInterrupted \/ StopSetEvent
    \/ StopSetDone \/ StopEmit

\* ------------------------------------------------- RomProcess.run
RowOf(g, id) == CHOOSE r \in g : r.id = id

\* task = self.__taskQueue.get(); a None is acknowledged, the aggregate is put
\* on the result queue and the process exits
WorkerGet(w) ==
    /\ wpc[w] = "get"
    /\ tasks # <<>>
    /\ tasks' = Tail(tasks)
    /\ IF Head(tasks) = Pill
       THEN /\ unfinished' = unfinished - 1
            /\ results' = Append(results, ProcessResult(wres[w]))
            /\ wpc' = [wpc EXCEPT ![w] = "exited"]
            /\ UNCHANGED wtask
       ELSE /\ wtask' = [wtask EXCEPT ![w] = Head(tasks)]
            /\ wpc' = [wpc EXCEPT ![w] = "check"]
            /\ UNCHANGED <<unfinished, results>>
    /\ UNCHANGED <<env, game, pending, orch, exitEvent, rpc, wres, wrow, wnew, wstate,
                   wfront, lock, stopv, states, hist>>

ExitRequestedNever(ev) == FALSE

\* self.__exitEvent.is_set()
ExitRequested(ev) == ev = "set"

\* the test of the stop event: the task is acknowledged without running, or
\* task.run() is entered (romTaskResult starts as STATE_FAILED, newGame as True)
WorkerCheck(w) ==
    /\ wpc[w] = "check"
    /\ IF ExitRequested(exitEvent)
       THEN /\ unfinished' = unfinished - 1
            /\ acked' = acked \cup {wtask[w]}
            /\ wpc' = [wpc EXCEPT ![w] = "get"]
            /\ UNCHANGED <<executed, wstate, wnew, wrow, wfront>>
       ELSE /\ executed' = executed \cup {wtask[w]}
            /\ wstate' = [wstate EXCEPT ![w] = STATE_FAILED]
            /\ wnew' = [wnew EXCEPT ![w] = TRUE]
            /\ wrow' = [wrow EXCEPT ![w] = NoRow]
            /\ wfront' = [wfront EXCEPT ![w] = "none"]
            /\ wpc' = [wpc EXCEPT ![w] = "lookup"]
            /\ UNCHANGED <<unfinished, acked>>
    /\ UNCHANGED <<env, game, pending, orch, tasks, exitEvent, results, rpc, wtask,
                   wres, lock, stopv, states, pre, raisedCnt, deletedRows,
                   stopsAtCreate, cleanPrev, fsChanged, stopIdle>>

\* ------------------------------------------------- GamesDbRomTask.run
TaskStep(w, from, to) ==
    /\ wpc[w] = from
    /\ wpc' = [wpc EXCEPT ![w] = to]

AcquireNoWait(w) == lock' = w

\* "with self._lock:" is entered when the lock is free
Acquire(w) == lock = 0 /\ lock' = w
ReleaseKeep(w) == lock = w /\ lock' = lock

\* the end of a "with self._lock:" block
Release(w) == lock = w /\ lock' = 0

\* with self._lock: query(Game).filter(Game.path == self._rom).first()
TaskLookup(w) ==
    /\ TaskStep(w, "lookup", "lookupDone")
    /\ Acquire(w)
    /\ wrow' = [wrow EXCEPT ![w] = LookupByPath(game, wtask[w])]
    /\ UNCHANGED <<env, game, pending, orch, tasks, unfinished, exitEvent, results,
                   rpc, wtask, wres, wnew, wstate, wfront, stopv, states, hist>>

\* the lock is released; "if result:"
TaskLookupDone(w) ==
    /\ wpc[w] = "lookupDone"
    /\ Release(w)
    /\ wpc' = [wpc EXCEPT ![w] = IF wrow[w] # NoRow THEN "found" ELSE "rasum"]
    /\ UNCHANGED <<env, game, pending, orch, tasks, unfinished, exitEvent, results,
                   rpc, wtask, wres, wrow, wnew, wstate, wfront, stopv, states, hist>>

\* game.found = True; with self._lock: session.add(game); session.commit()
TaskFound(w) ==
    /\ TaskStep(w, "found", "foundDone")
    /\ Acquire(w)
    /\ game' = MarkFound(game, wrow[w])
    /\ UNCHANGED <<env, pending, orch, tasks, unfinished, exitEvent, results, rpc,
                   wtask, wres, wrow, wnew, wstate, wfront, stopv, states, hist>>

MustEnrichAlways(new, full) == TRUE

\* "if game and (newGame or self._fullscan):"
MustEnrich(new, full) == new \/ full

\* newGame = False; the result becomes STATE_SKIPPED
TaskFoundDone(w) ==
    /\ wpc[w] = "foundDone"
    /\ Release(w)
    /\ wnew' = [wnew EXCEPT ![w] = FALSE]
    /\ wstate' = [wstate EXCEPT ![w] = STATE_SKIPPED]
    /\ wpc' = [wpc EXCEPT ![w] = IF MustEnrich(FALSE, fullscan) THEN "enrich" ELSE "return"]
    /\ UNCHANGED <<env, game, pending, orch, tasks, unfinished, exitEvent, results,
                   rpc, wtask, wres, wrow, wfront, stopv, states, hist>>

\* rasum = pes.retroachievement.getRasum(...), outside the lock; it returns
TaskRasum(w) ==
    /\ TaskStep(w, "rasum", "retro")
    /\ UNCHANGED <<env, game, pending, orch, tasks, unfinished, exitEvent, results,
                   rpc, wtask, wres, wrow, wnew, wstate, wfront, lock, stopv, states, hist>>

RaisePcsAfterInsert == {"rasum", "enrich"}

\* The statements of GamesDbRomTask.run that raise: getRasum, called for a
\* new ROM before anything is written.  Every request and file write of the
\* enrichment is inside a try block that logs and carries on.
RaisePcs == {"rasum"}

\* getRasum raises (the file is gone or the tool exits non-zero); the worker's
\* except clause puts a RomTaskResult(STATE_FAILED) on the result queue and
\* acknowledges the task
TaskRaise(w) ==
    /\ \E from \in RaisePcs : TaskStep(w, from, "get")
    /\ results' = Append(results, TaskResult)
    /\ unfinished' = unfinished - 1
    /\ raisedCnt' = raisedCnt + 1
    /\ UNCHANGED <<env, game, pending, orch, tasks, exitEvent, rpc, wtask, wres, wrow,
                   wnew, wstate, wfront, lock, stopv, states, pre, executed, acked,
                   deletedRows, stopsAtCreate, cleanPrev, fsChanged, stopIdle>>

\* with self._lock: the achievement catalog is queried by console and rasum
TaskRetro(w) ==
    /\ TaskStep(w, "retro", "retroDone")
    /\ Acquire(w)
    /\ UNCHANGED <<env, game, pending, orch, tasks, unfinished, exitEvent, results,
                   rpc, wtask, wres, wrow, wnew, wstate, wfront, stopv, states, hist>>

\* "if retroGame:" with a paired descriptive entry the row is inserted,
\* otherwise the name match is tried
TaskRetroDone(w) ==
    /\ wpc[w] = "retroDone"
    /\ Release(w)
    /\ wpc' = [wpc EXCEPT ![w] = IF RetroMatch(wtask[w]) THEN "insert" ELSE "name"]
    /\ UNCHANGED <<env, game, pending, orch, tasks, unfinished, exitEvent, results,
                   rpc, wtask, wres, wrow, wnew, wstate, wfront, stopv, states, hist>>

\* with self._lock: the descriptive catalog is queried by normalized name
TaskName(w) ==
    /\ TaskStep(w, "name", "nameDone")
    /\ Acquire(w)
    /\ UNCHANGED <<env, game, pending, orch, tasks, unfinished, exitEvent, results,
                   rpc, wtask, wres, wrow, wnew, wstate, wfront, stopv, states, hist>>

\* the Game object is built from the entry or from the file name
TaskNameDone(w) ==
    /\ TaskStep(w, "nameDone", "insert")
    /\ Release(w)
    /\ UNCHANGED <<env, game, pending, orch, tasks, unfinished, exitEvent, results,
                   rpc, wtask, wres, wrow, wnew, wstate, wfront, stopv, states, hist>>

\* with self._lock: session.add(game); session.commit()
TaskInsert(w) ==
    /\ TaskStep(w, "insert", "insertDone")
    /\ Acquire(w)
    /\ game' = game \cup {NewGame(game, wtask[w])}
    /\ wrow' = [wrow EXCEPT ![w] = NewGame(game, wtask[w]).id]
    /\ UNCHANGED <<env, pending, orch, tasks, unfinished, exitEvent, results, rpc,
                   wtask, wres, wnew, wstate, wfront, stopv, states, hist>>

\* the result becomes STATE_ADDED
TaskInsertDone(w) ==
    /\ wpc[w] = "insertDone"
    /\ Release(w)
    /\ wpc' = [wpc EXCEPT ![w] = IF MustEnrich(wnew[w], fullscan) THEN "enrich" ELSE "return"]
    /\ wstate' = [wstate EXCEPT ![w] = STATE_ADDED]
    /\ UNCHANGED <<env, game, pending, orch, tasks, unfinished, exitEvent, results,
                   rpc, wtask, wres, wrow, wnew, wfront, stopv, states, hist>>

AfterFrontArtFails(st, new, gid, ok) ==
    IF HasFrontUrl(gid) /\ ~ok THEN STATE_FAILED
    ELSE IF HasFrontUrl(gid) /\ ok /\ ~new THEN STATE_UPDATED ELSE st

\* The front cover-art download: a known game whose image was fetched with
\* HTTP 200 becomes STATE_UPDATED; nothing else changes the result state.
AfterFrontArt(st, new, gid, ok) ==
    IF HasFrontUrl(gid) /\ ok /\ ~new THEN STATE_UPDATED ELSE st

\* How the loop over the front URLs ends: a URL answered 200 and the image
\* was written ("saved"), the image file of a URL was already on disk and
\* fullscan is not set ("cached"), or every request failed ("none").
FrontOutcomes(full) == IF full THEN {"saved", "none"} ELSE {"saved", "cached", "none"}

FrontArtNull(out) == IF out = "none" THEN NoArt ELSE ArtPath

\* "if imgSaved: game.coverartFront = path / else: ... = self._getNocoverart()"
FrontArt(out) == IF out = "none" THEN Nocoverart ELSE ArtPath

SetFront(g, id, v) ==
    {IF r.id = id THEN [r EXCEPT !.coverartFront = v] ELSE r : r \in g}
SetBack(g, id) ==
    {IF r.id = id THEN [r EXCEPT !.coverartBack = TRUE] ELSE r : r \in g}
SetScreenshots(g, id, n) ==
    {IF r.id = id THEN [r EXCEPT !.screenshots = n] ELSE r : r \in g}

\* "if game and (newGame or self._fullscan):" the loop over the front URLs of
\* the game's descriptive entry; for a new game the cover-art path is then
\* committed under the lock.  For a known game the loops over the rear URLs
\* and the screenshots that follow write nothing and leave the result as it
\* is (every write there is under "newGame", and mustSave is False), so the
\* task goes on to its return.
TaskFront(w) ==
    /\ wpc[w] = "enrich"
    /\ LET gid == RowOf(game, wrow[w]).gamesDbId
       IN IF ~HasFrontUrl(gid)
          THEN /\ wpc' = [wpc EXCEPT ![w] = "return"]
               /\ UNCHANGED <<game, lock, wstate, wfront>>
          ELSE \E out \in FrontOutcomes(fullscan) :
                 /\ wfront' = [wfront EXCEPT ![w] = out]
                 /\ wstate' = [wstate EXCEPT ![w] =
                        AfterFrontArt(wstate[w], wnew[w], gid, out = "saved")]
                 /\ IF wnew[w]
                    THEN /\ Acquire(w)
                         /\ game' = SetFront(game, wrow[w], FrontArt(out))
                         /\ wpc' = [wpc EXCEPT ![w] = "frontDone"]
                    ELSE /\ wpc' = [wpc EXCEPT ![w] = "return"]
                         /\ UNCHANGED <<game, lock>>
    /\ UNCHANGED <<env, pending, orch, tasks, unfinished, exitEvent, results, rpc,
                   wtask, wres, wrow, wnew, stopv, states, hist>>

\* the lock is released after the commit
TaskFrontDone(w) ==
    /\ TaskStep(w, "frontDone", "back")
    /\ Release(w)
    /\ UNCHANGED <<env, game, pending, orch, tasks, unfinished, exitEvent, results,
                   rpc, wtask, wres, wrow, wnew, wstate, wfront, stopv, states, hist>>

\* the loop over the rear URLs: an image was saved (or was on disk) or not;
\* "if imgSaved and newGame:" the path is committed under the lock
TaskBack(w) ==
    /\ wpc[w] = "back"
    /\ \E ok \in {b \in BOOLEAN : b => HasBackUrl(RowOf(game, wrow[w]).gamesDbId)} :
         IF ok /\ wnew[w]
         THEN /\ Acquire(w)
              /\ game' = SetBack(game, wrow[w])
              /\ wpc' = [wpc EXCEPT ![w] = "backDone"]
         ELSE /\ wpc' = [wpc EXCEPT ![w] = "shots"]
              /\ UNCHANGED <<game, lock>>
    /\ UNCHANGED <<env, pending, orch, tasks, unfinished, exitEvent, results, rpc,
                   wtask, wres, wrow, wnew, wstate, wfront, stopv, states, hist>>

TaskBackDone(w) ==
    /\ TaskStep(w, "backDone", "shots")
    /\ Release(w)
    /\ UNCHANGED <<env, game, pending, orch, tasks, unfinished, exitEvent, results,
                   rpc, wtask, wres, wrow, wnew, wstate, wfront, stopv, states, hist>>

\* the loop over the entry's screenshots: n images were fetched; for a known
\* game mustSave is always False, so only a new game has screenshots to
\* attach; "if len(screenshots) > 0:" they are committed under the lock
TaskShots(w) ==
    /\ wpc[w] = "shots"
    /\ \E n \in 0..ScreenshotsOf(RowOf(game, wrow[w]).gamesDbId) :
         IF n > 0 /\ wnew[w]
         THEN /\ Acquire(w)
              /\ game' = SetScreenshots(game, wrow[w], n)
              /\ wpc' = [wpc EXCEPT ![w] = "shotsDone"]
         ELSE /\ wpc' = [wpc EXCEPT ![w] = "return"]
              /\ UNCHANGED <<game, lock>>
    /\ UNCHANGED <<env, pending, orch, tasks, unfinished, exitEvent, results, rpc,
                   wtask, wres, wrow, wnew, wstate, wfront, stopv, states, hist>>

TaskShotsDone(w) ==
    /\ TaskStep(w, "shotsDone", "return")
    /\ Release(w)
    /\ UNCHANGED <<env, game, pending, orch, tasks, unfinished, exitEvent, results,
                   rpc, wtask, wres, wrow, wnew, wstate, wfront, stopv, states, hist>>

\* task.run() returned: romProcessResult.addRomTaskResult(romTaskResult) and
\* self.__taskQueue.task_done()
WorkerTaskDone(w) ==
    /\ TaskStep(w, "return", "get")
    /\ wres' = [wres EXCEPT ![w] = addRomTaskResult(wres[w], wstate[w])]
    /\ unfinished' = unfinished - 1
    /\ UNCHANGED <<env, game, pending, orch, tasks, exitEvent, results, rpc, wtask,
                   wrow, wnew, wstate, wfront, lock, stopv, states, hist>>

Worker(w) ==
    \/ WorkerGet(w) \/ WorkerCheck(w) \/ TaskLookup(w) \/ TaskLookupDone(w)
    \/ TaskFound(w) \/ TaskFoundDone(w) \/ TaskRasum(w) \/ TaskRaise(w)
    \/ TaskRetro(w) \/ TaskRetroDone(w) \/ TaskName(w) \/ TaskNameDone(w)
    \/ TaskInsert(w) \/ TaskInsertDone(w) \/ TaskFront(w) \/ TaskFrontDone(w)
    \/ TaskBack(w) \/ TaskBackDone(w) \/ TaskShots(w) \/ TaskShotsDone(w)
    \/ WorkerTaskDone(w)

\* ---------------------------------------------------------- specification
Next ==
    \/ MonitorRun \/ MonitorLoop \/ ChangeFiles
    \/ Run
    \/ Stop
    \/ \E w \in Procs : Worker(w)

Spec == Init /\ [][Next]_vars

\* The operating system schedules every thread and every process: the scan
\* thread, the workers and a stop() call in progress keep taking their steps.
FairSpec ==
    /\ Spec
    /\ WF_vars(Run)
    /\ WF_vars(StopSetInterrupted \/ StopSetEvent \/ StopSetDone \/ StopEmit)
    /\ \A w \in Procs : WF_vars(Worker(w))
    /\ WF_vars(MonitorLoop)

TypeOK ==
    /\ romFiles \subseteq Paths
    /\ DOMAIN names = Paths
    /\ lock \in {0} \cup Procs
    /\ unfinished >= 0
    /\ exitEvent \in {"none", "clear", "set"}

\* ================================================================ claims
Ids(g) == {r.id : r \in g}
TaskPcs == {"lookup", "lookupDone", "found", "foundDone", "rasum", "retro",
            "retroDone", "name", "nameDone", "insert", "insertDone", "enrich",
            "frontDone", "back", "backDone", "shots", "shotsDone", "return",
            "raising"}
Count(res) == res.added + res.updated + res.failed + res.skipped

\* C1: when stop() was called during a run, no Game row whose task was
\* enqueued but not executed in that run (still queued, or acknowledged
\* without running) is deleted by the run: every such row of the table as it
\* was before the run is still in the table.
C1_UnexecutedRowsKept ==
    (stops > stopsAtCreate /\ ~fsChanged) =>
        \A r \in pre : (r.path \in romFiles /\ r.path \notin executed) => r.id \in Ids(game)

\* A stopped run has reconciled while the task of an existing row was
\* acknowledged without running.
C1_Witness ==
    /\ rpc = "finished" /\ stops > stopsAtCreate
    /\ \E r \in pre : r.path \in acked /\ r.id \in Ids(game)

\* C2: a run that reports done with getInterrupted() true has Deleted = 0 and
\* has deleted no Game row.
C2_CancelledRunDeletesNothing ==
    (rpc = "emitDone" /\ interrupted) =>
        /\ deleted = 0
        /\ deletedRows = {}
        /\ Ids(pre) \subseteq Ids(game)

\* An interrupted run, whose workers executed a task, is about to report done
\* while the table held rows before the run.
C2_Witness ==
    /\ rpc = "emitDone" /\ interrupted /\ processStarted
    /\ pre # {} /\ executed # {}

\* C3: a scan that is not cancelled, run after exactly one scanned file was
\* removed while other ROM files remain, ends with Deleted = 1 and without
\* that file's Game row.
C3_DeletionReconciliation ==
    (/\ rpc = "finished" /\ ~fsChanged /\ stops = stopsAtCreate /\ ~interrupted
     /\ romFiles # {}
     /\ Cardinality({r \in pre : r.path \notin romFiles}) = 1) =>
        /\ deleted = 1
        /\ \A r \in pre : r.path \notin romFiles => r.id \notin Ids(game)

\* C4: no two Game rows have the same path.
C4_PathUnique ==
    \A r1, r2 \in game : r1.path = r2.path => r1.id = r2.id

\* A run has rediscovered an existing row and inserted a new one.
C4_Witness ==
    /\ rpc = "finished"
    /\ \E r \in pre : r.path \in executed
    /\ Cardinality(game) > Cardinality(pre)

\* C5: once the workers have been joined and the result queue drained, the
\* run goes on and its Failed counter equals the number of tasks that raised.
C5_FailedCountsRaised ==
    rpc \in {"reconcile", "setDone", "emitDone", "finished", "crashed"} =>
        (rpc # "crashed" /\ (processStarted => failed = raisedCnt))

\* C6: a run that has reported started eventually reports done, with every
\* worker exited and the Monitor's loop returned.
C6_RunTerminates ==
    (rpc = "resetDone") ~>
        (rpc = "finished" /\ \A w \in Procs : wpc[w] \in {"new", "exited"})

C8_ProgressMonotone ==
    [][runs' = runs =>
        /\ Leq(getProgress, getProgress')
        /\ Leq(<<0, 1>>, getProgress') /\ Leq(getProgress', <<1, 1>>)
        /\ ((\A w \in Procs : wpc'[w] = "new") /\ rpc' \notin {"emitDone", "finished"}
               => getProgress' = <<0, 1>>)]_vars

\* C9: the emitted state names follow the state machine: started first,
\* stopped only after started and never after done, nothing but done after
\* stopped, done at most once and last.
C9_StateMachine ==
    /\ states # <<>> => states[1] = "started"
    /\ \A i, j \in 1..Len(states) :
          i < j => /\ states[i] # "done"
                   /\ states[j] # "started"
                   /\ (states[i] = "stopped" => states[j] = "done")

\* C10: a worker that tests the stop flag after it was set never enters
\* task.run() and goes on pulling; a worker inside task.run() when the flag
\* is set keeps executing that task, and when the task returns it is added to
\* the worker's aggregate.
C10_CooperativeCancel ==
    [][(runs' = runs /\ exitEvent = "set") =>
        \A w \in Procs :
            /\ wpc[w] \in {"get", "check"} => wpc'[w] \in {"get", "check", "exited"}
            /\ (wpc[w] = "check" /\ wpc'[w] = "get") => unfinished' = unfinished - 1
            /\ (wpc[w] \in TaskPcs /\ wpc'[w] # wpc[w]) =>
                 \/ wpc'[w] \in TaskPcs
                 \/ wpc'[w] = "get" /\ raisedCnt' = raisedCnt + 1
                 \/ wpc'[w] = "get" /\ Count(wres'[w]) = Count(wres[w]) + 1]_vars

\* After the flag was set one worker has acknowledged a task without running
\* it while another has finished the task it was executing.
C10_Witness ==
    /\ exitEvent = "set" /\ acked # {}
    /\ \E w \in Procs : wpc[w] = "get" /\ Count(wres[w]) > 0

\* C11: at every moment at most one worker is inside an invocation of the
\* checksum provider (getRasum), and a worker inside it holds the lock.
C11_ChecksumSerialized ==
    \A w \in Procs :
        wpc[w] = "rasum" =>
            /\ lock = w
            /\ \A v \in Procs : wpc[v] = "rasum" => v = w

\* Positions of a task between a commit and the release of the lock.
WritePcs == {"foundDone", "insertDone", "frontDone", "backDone", "shotsDone"}

\* C12: every write of a task to the database (the found = true commit, the
\* insert of a Game row, the cover-art paths, the screenshots) is made by a
\* worker that takes the lock for it and holds it until the commit is done,
\* so no two workers are writing at the same moment.
C12_WritesUnderLock ==
    [][\A w \in Procs :
          /\ (wpc[w] \in TaskPcs /\ wpc'[w] # wpc[w] /\ game' # game) =>
                (lock = 0 /\ lock' = w /\ wpc'[w] \in WritePcs)
          /\ wpc'[w] \in WritePcs => lock' = w]_vars

\* One worker has committed the front cover art of a new game and still holds
\* the lock while the other is about to write a row.
C12_Witness ==
    \E w, v \in Procs :
        /\ wpc[w] = "frontDone" /\ lock = w
        /\ wpc[v] \in {"found", "insert"}

\* The reconciliation pass of run() (lines 772-785) taken on its own, applied
\* to any Game table: the rows of the paths in S, marked found for the paths
\* in F, in a run that was interrupted or not.
MarkedLibrary(S, F) ==
    {[r EXCEPT !.found = (r.path \in F)] : r \in ScannedLibrary(S)}

ReconcileInit ==
    /\ names = LibraryNames
    /\ loop = NoLoop
    /\ romFiles \in SUBSET Paths
    /\ \E S \in SUBSET Paths : \E F \in SUBSET S : game = MarkedLibrary(S, F)
    /\ pending = FALSE
    /\ scanThread = TRUE
    /\ mpc = "loop"
    /\ runs = 1
    /\ fullscan \in BOOLEAN
    /\ started = TRUE /\ done = FALSE /\ interrupted \in BOOLEAN /\ processStarted = TRUE
    /\ romTotal = Cardinality(romFiles)
    /\ added = 0 /\ updated = 0 /\ skipped = 0 /\ failed = 0 /\ deleted = 0
    /\ progressMessage = "Found ROMs"
    /\ tasks = <<>>
    /\ unfinished = 0
    /\ exitEvent = (IF interrupted THEN "set" ELSE "clear")
    /\ results = <<>>
    /\ rpc = "reconcile"
    /\ wpc = [w \in Procs |-> "exited"]
    /\ wtask = [w \in Procs |-> Pill]
    /\ wres = [w \in Procs |-> ZeroResult]
    /\ wrow = [w \in Procs |-> NoRow]
    /\ wnew = [w \in Procs |-> TRUE]
    /\ wstate = [w \in Procs |-> STATE_FAILED]
    /\ wfront = [w \in Procs |-> "none"]
    /\ lock = 0
    /\ spc = "idle" /\ stops = (IF interrupted THEN 1 ELSE 0) /\ stopRaised = FALSE
    /\ states = <<"started", "update">>
    /\ pre = game /\ executed = {} /\ acked = {} /\ raisedCnt = 0 /\ deletedRows = {}
    /\ stopsAtCreate = 0 /\ cleanPrev = FALSE /\ fsChanged = FALSE /\ stopIdle = FALSE

ReconcileNext == RunReconcile \/ RunSetDone \/ RunEmitDone

ReconcileSpec == ReconcileInit /\ [][ReconcileNext]_vars

C14_CounterConservation ==
    rpc \in {"emitDone", "finished"} =>
        /\ added + updated + skipped + failed = Cardinality(executed)
        /\ executed \cap acked = {}
        /\ Cardinality(executed) + Cardinality(acked) = romTotal
        /\ stops = stopsAtCreate => added + updated + skipped + failed = romTotal

\* A cancelled run has reported done after one task was executed and another
\* acknowledged without running.
C14_Witness ==
    /\ rpc = "finished" /\ interrupted
    /\ executed # {} /\ acked # {}
    /\ added + updated + skipped + failed = 1

C16_IdleStopNoOp ==
    [][(stopIdle' /\ (spc # "idle" \/ spc' # "idle")) =>
          (states' = states /\ orch' = orch)]_vars

\* Positions of a task after the commit of its new Game row.
InsertedPcs == {"insertDone", "enrich", "frontDone", "back", "backDone", "shots",
                "shotsDone", "return"}

\* C17: for a new ROM whose checksum matches an achievement entry paired with
\* a descriptive entry, the created Game row carries the name and the id of
\* that descriptive entry, not the file name, and the task returns Added.
C17_ChecksumMatchNamesRow ==
    \A w \in Procs :
        (wpc[w] \in InsertedPcs /\ wnew[w] /\ RetroMatch(wtask[w])) =>
            /\ RowOf(game, wrow[w]).path = wtask[w]
            /\ RowOf(game, wrow[w]).name = EntryName(wtask[w])
            /\ RowOf(game, wrow[w]).name # RomName(wtask[w])
            /\ RowOf(game, wrow[w]).gamesDbId = GamesDbIdOf(wtask[w])
            /\ wpc[w] = "return" => wstate[w] = STATE_ADDED

\* The task of a new ROM with a checksum match is about to return Added.
C17_Witness ==
    \E w \in Procs :
        /\ wpc[w] = "return" /\ wnew[w] /\ RetroMatch(wtask[w])
        /\ wstate[w] = STATE_ADDED
        /\ RowOf(game, wrow[w]).name = EntryName(wtask[w])

\* C18: for a new ROM that matches neither by checksum nor by name, the
\* created Game row is named after the file without its extension, its
\* coverartFront is the console's default no-art path, and the task returns
\* Added.
C18_NoMatchUsesFileName ==
    \A w \in Procs :
        (wpc[w] \in InsertedPcs /\ wnew[w]
            /\ ~RetroMatch(wtask[w]) /\ ~NameMatch(wtask[w])) =>
            /\ RowOf(game, wrow[w]).path = wtask[w]
            /\ RowOf(game, wrow[w]).name = RomName(wtask[w])
            /\ RowOf(game, wrow[w]).coverartFront = Nocoverart
            /\ wpc[w] = "return" => wstate[w] = STATE_ADDED

\* The task of a new ROM that matched nothing is about to return Added.
C18_Witness ==
    \E w \in Procs :
        /\ wpc[w] = "return" /\ wnew[w]
        /\ ~RetroMatch(wtask[w]) /\ ~NameMatch(wtask[w])
        /\ wstate[w] = STATE_ADDED
        /\ RowOf(game, wrow[w]).coverartFront = Nocoverart

\* Positions of a task after the loop over the front cover-art URLs.
AfterFrontPcs == {"frontDone", "back", "backDone", "shots", "shotsDone", "return"}

\* C19: for a newly added game tied to a descriptive entry with front-art
\* URLs, when every request for a front image fails or answers an error
\* status, the row's coverartFront is the console's default no-art path and
\* the task still returns Added.
C19_FrontArtFallback ==
    \A w \in Procs :
        (wpc[w] \in AfterFrontPcs /\ wnew[w] /\ wfront[w] = "none"
            /\ HasFrontUrl(RowOf(game, wrow[w]).gamesDbId)) =>
            /\ RowOf(game, wrow[w]).coverartFront = Nocoverart
            /\ wpc[w] = "return" => wstate[w] = STATE_ADDED

\* The task of a new ROM with a checksum match, none of whose front images
\* could be fetched, is about to return.
C19_Witness ==
    \E w \in Procs :
        /\ wpc[w] = "return" /\ wnew[w] /\ wfront[w] = "none"
        /\ RetroMatch(wtask[w])
        /\ RowOf(game, wrow[w]).coverartFront = Nocoverart
        /\ wstate[w] = STATE_ADDED

C22_StopNeverLost ==
    /\ ~stopRaised
    /\ ~(spc = "setDone" /\ ~done)
    /\ exitEvent = "set" => interrupted

\* C23: when the workers have just been started and none has pulled a task
\* yet, every Game row that existed before the run has found = false in the
\* committed table, the one the workers and the reconciliation read.
C23_MarkedBeforeTasks ==
    (/\ rpc = "join"
     /\ \A w \in Procs : wpc[w] = "get"
     /\ Len(tasks) = romTotal + RomProcessTotal) =>
        \A r \in game : r.id \in Ids(pre) => ~r.found

\* The number of ROM tasks in a queue.
RomTasksIn(q) == Cardinality({i \in 1..Len(q) : q[i] # Pill})

\* C24: while the workers are draining a queue that holds more items than
\* there are workers, getProgress() is (total - r) / total with r the number
\* of ROM tasks still queued, and every poison pill is still queued whenever
\* a ROM task is.
C24_ProgressWhileDraining ==
    (/\ rpc = "join"
     /\ Len(tasks) > RomProcessTotal) =>
        /\ Len(tasks) - RomTasksIn(tasks) = RomProcessTotal
        /\ getProgress = <<romTotal - RomTasksIn(tasks), romTotal>>

\* The workers that have pulled a ROM task and not yet acknowledged it.
Busy == {w \in Procs : wpc[w] \in TaskPcs \cup {"check"}}

\* C25: once the queue is complete (ROM tasks, then one pill per worker),
\* every item is held by at most one worker and is not in the queue any more,
\* the acknowledgements outstanding are exactly the items still queued plus
\* the tasks being worked on, every worker that has exited has consumed one
\* pill (exited workers plus queued pills make the worker count), no worker
\* has exited while a ROM task is queued, and when all workers have exited
\* the queue is empty and fully acknowledged, so that the join returns.
C25_QueueDiscipline ==
    rpc \in {"startProcs", "join"} =>
        /\ \A w1, w2 \in Busy : wtask[w1] = wtask[w2] => w1 = w2
        /\ \A w \in Busy : \A i \in 1..Len(tasks) : tasks[i] # wtask[w]
        /\ \A i, j \in 1..Len(tasks) :
               (tasks[i] # Pill /\ tasks[i] = tasks[j]) => i = j
        /\ unfinished = Len(tasks) + Cardinality(Busy)
        /\ Cardinality({w \in Procs : wpc[w] = "exited"})
               + (Len(tasks) - RomTasksIn(tasks)) = RomProcessTotal
        /\ (\E w \in Procs : wpc[w] = "exited") => RomTasksIn(tasks) = 0
        /\ (\A w \in Procs : wpc[w] = "exited") =>
               /\ tasks = <<>> /\ unfinished = 0
               /\ ENABLED RunJoin

\* Every worker has exited after ROM tasks were pulled and acknowledged, one of
\* them by a task that raised.
C25_Witness ==
    /\ rpc = "join"
    /\ \A w \in Procs : wpc[w] = "exited"
    /\ romTotal = MaxRoms /\ raisedCnt > 0
    /\ tasks = <<>> /\ unfinished = 0

\* Positions of a task at which the image requests of an asset are made next
\* (front cover, back cover, screenshots), and positions inside a
\* "with self._lock:" block.
DownloadPcs == {"enrich", "back", "shots"}
LockPcs == {"lookupDone", "foundDone", "retroDone", "nameDone", "insertDone",
            "frontDone", "backDone", "shotsDone"}

\* C26: a worker that is about to request the images of an asset does not
\* hold the lock, and a worker holds the lock only inside the blocks that
\* look up or write the database.
C26_NoLockWhileDownloading ==
    \A w \in Procs :
        /\ wpc[w] \in DownloadPcs => lock # w
        /\ lock = w => wpc[w] \in LockPcs

\* A worker has saved a front cover and is about to request the back cover
\* while the other worker is inside a locked block.
C26_Witness ==
    \E w, v \in Procs :
        /\ w # v
        /\ wpc[w] = "back" /\ wfront[w] = "saved"
        /\ lock = v /\ wpc[v] \in LockPcs

\* Positions of a task in the matching of a new ROM: the checksum, the two
\* catalog queries and the building of the row to insert.
MatchPcs == {"rasum", "retro", "retroDone", "name", "nameDone", "insert"}

\* C27: a task is in the matching of a new ROM (checksum, name lookup, insert)
\* only while no Game row has its path; for a path that has a row, the commit
\* of the matching phase changes nothing but found = true on that row, no row
\* is created, and the task goes on to the enrichment or returns Skipped.
C27_KnownFileFirstMatch ==
    [][\A w \in Procs :
          /\ wpc'[w] \in MatchPcs => ~\E r \in game' : r.path = wtask'[w]
          /\ (wpc[w] = "found" /\ wpc'[w] # "found") =>
                /\ wpc'[w] = "foundDone"
                /\ \E r \in game : r.path = wtask[w]
                /\ game' = {IF r.path = wtask[w] THEN [r EXCEPT !.found = TRUE] ELSE r :
                              r \in game}
          /\ (wpc[w] = "foundDone" /\ wpc'[w] # "foundDone") =>
                /\ wpc'[w] \in {"enrich", "return"}
                /\ game' = game
                /\ wstate'[w] = STATE_SKIPPED /\ ~wnew'[w]]_vars

\* The task of a known file is about to return Skipped and the table has as
\* many rows as before the run.
C27_Witness ==
    \E w \in Procs :
        /\ wpc[w] = "return" /\ ~wnew[w] /\ wstate[w] = STATE_SKIPPED
        /\ wrow[w] \in Ids(pre)
        /\ RowOf(game, wrow[w]).path = wtask[w]
        /\ Cardinality(game) = Cardinality(pre)

\* The worker processes that have been started and have not exited.
Alive == {w \in Procs : wpc[w] \notin {"new", "exited"}}

\* C28: while a worker process is alive the orchestrator's enumeration
\* session is closed (it holds no transaction) and the orchestrator is
\* between the start of the workers and the end of their joins, before the
\* reconciliation session is opened.
C28_NoSessionWhileWorkersAlive ==
    Alive # {} => (~pending /\ rpc = "join")

\* A worker is running a task of a run that marked the rows of a table that
\* was not empty.
C28_Witness ==
    /\ \E w \in Alive : wpc[w] \in TaskPcs
    /\ pre # {} /\ ~pending /\ rpc = "join"

\* Libraries for the name search: the file and the descriptive entry of a ROM
\* without a checksum match are named as in LibraryNames, or "R<p>" and
\* "r <p>", equal but for case and a space, or both "Eacute<p>", the same name
\* beginning with a capital letter outside ASCII.
NamePairs(p) ==
    {LibraryNames[p],
     [LibraryNames[p] EXCEPT !.file = <<"R", Digit(p)>>, !.entry = <<"r", " ", Digit(p)>>],
     [LibraryNames[p] EXCEPT !.file = <<"Eacute", Digit(p)>>,
                             !.entry = <<"Eacute", Digit(p)>>]}

CatalogNames ==
    {n \in [Paths -> UNION {NamePairs(p) : p \in Paths}] :
        \A p \in Paths : IF RetroMatch(p) THEN n[p] = LibraryNames[p]
                         ELSE n[p] \in NamePairs(p)}

\* The scans start from an empty Game table and a directory that holds ROMs
\* without a checksum match.
CatalogInit ==
    /\ names \in CatalogNames
    /\ loop = NoLoop
    /\ romFiles \in SUBSET {p \in Paths : ~RetroMatch(p)}
    /\ game = {}
    /\ Quiescent

CatalogSpec == CatalogInit /\ [][Next]_vars

\* C29: for a new ROM without a checksum match, if the file's base name and
\* the name of a descriptive entry are equal once both have their spaces
\* removed and are lower-cased, the created row has that entry's name and id
\* and the task returns Added; otherwise the row is the bare no-match row,
\* named after the file and without a descriptive entry.
C29_NameMatchNormalized ==
    \A w \in Procs :
        (wpc[w] \in InsertedPcs /\ wnew[w] /\ ~RetroMatch(wtask[w])) =>
            LET p == wtask[w]
                row == RowOf(game, wrow[w])
                E == {e \in Paths : PyNormalize(EntryName(e)) = PyNormalize(RomName(p))}
            IN IF E # {}
               THEN /\ \E e \in E : row.name = EntryName(e) /\ row.gamesDbId = e
                    /\ wpc[w] = "return" => wstate[w] = STATE_ADDED
               ELSE /\ row.name = RomName(p) /\ row.gamesDbId = 0
                    /\ row.coverartFront = Nocoverart

\* ------------------------------------------- the image loops of a task
\* One run of "for url in urls:" for the front cover (355-384), the back
\* cover (404-432) or one screenshot (446-485).  The URL variants are numbered
\* in the order in which the list is built: large, medium, original.
Variants == <<"large", "medium", "original">>
Assets == {"front", "back", "screenshot"}

\* The lists that the three "if ...: urls.append(...)" build: the variants the
\* entry has, in the order large, medium, original.
RECURSIVE UrlsOf(_)
UrlsOf(S) == IF S = {} THEN <<>> ELSE <<Min(S)>> \o UrlsOf(S \ {Min(S)})

\* The inputs of a loop: the asset, newGame and fullscan (the enrichment runs
\* when one of them is true, and a known game is enriched only under
\* fullscan), the list of URLs, what the server answers for each variant
\* ("ok" is HTTP 200, "fail" any other status or an exception) and whether the
\* image file of the variant is already on disk.
LoopInputs ==
    {in \in
        {[pc |-> "loop", asset |-> a, new |-> n, full |-> f, urls |-> UrlsOf(S),
          response |-> r, exists |-> x, i |-> 1, imgSaved |-> FALSE,
          requested |-> <<>>] :
            a \in Assets, n \in BOOLEAN, f \in BOOLEAN,
            S \in SUBSET DOMAIN Variants,
            r \in [DOMAIN Variants -> {"ok", "fail"}],
            x \in [DOMAIN Variants -> BOOLEAN]} :
        in.new \/ in.full}

\* "break" at the end of a loop turn: the front-cover and the screenshot loop
\* break after a 200 and on an existing file; the back-cover loop breaks under
\* "if imgSaved and newGame:" only.
Breaks(asset, new, saved, got) ==
    IF asset = "back" THEN saved /\ new ELSE got

\* One turn of the loop for urls[i].
LoopTurn ==
    /\ loop.pc = "loop"
    /\ IF loop.i > Len(loop.urls)
       THEN loop' = [loop EXCEPT !.pc = "done"]
       ELSE LET v == loop.urls[loop.i]
                request == loop.full \/ ~loop.exists[v]
                got == IF request THEN loop.response[v] = "ok" ELSE TRUE
                saved == loop.imgSaved \/ got
            IN loop' = [loop EXCEPT
                          !.requested = IF request THEN Append(@, v) ELSE @,
                          !.imgSaved = saved,
                          !.i = @ + 1,
                          !.pc = IF Breaks(loop.asset, loop.new, saved, got)
                                 THEN "done" ELSE "loop"]
    /\ UNCHANGED <<romFiles, game, pending, scanThread, mpc, runs, fullscan, orch,
                   tasks, unfinished, exitEvent, results, rpc, wvars, lock, spc, stops,
                   stopRaised, states, hist, names>>

LoopInit ==
    /\ names = LibraryNames
    /\ loop \in LoopInputs
    /\ romFiles = {}
    /\ game = {}
    /\ Quiescent

LoopNext == LoopTurn

LoopSpec == LoopInit /\ [][LoopNext]_vars

\* C30: in every loop (front cover, back cover, screenshot; new game or
\* fullscan of a known game) the variants are requested in the order large,
\* medium, original, and no variant is requested after one has returned
\* HTTP 200.
C30_FirstSuccessStops ==
    loop.pc # "none" =>
        /\ \A k \in 1..(Len(loop.requested) - 1) : loop.requested[k] < loop.requested[k + 1]
        /\ \A k \in 1..(Len(loop.requested) - 1) : loop.response[loop.requested[k]] # "ok"

\* ------------------------------------------- the screenshot loop of a task
\* "for screenshot in game.gamesDbGame.screenshots:" (436-488) for an entry
\* with a number of screenshots.  got[k] tells whether the URL loop of the
\* k-th screenshot ends with an image, downloaded or already on disk.  For a
\* known game "if session.query(...).filter(...):" tests a Query object, which
\* is true, so mustSave is False and nothing is appended.
ShotInputs ==
    {in \in
        {[pc |-> "screenshot", new |-> n, full |-> f, entries |-> e, got |-> g,
          k |-> 1, count |-> 0, screenshots |-> 0, maxN |-> 0] :
            n \in BOOLEAN, f \in BOOLEAN, e \in 0..MaxShots,
            g \in [1..MaxShots -> BOOLEAN]} :
        in.new \/ in.full}

\* "if count > 3: break"
CapReached(count) == count > 3

\* One turn of the loop for the k-th screenshot: its file is named with the
\* index count + 1; an image increments count and, for a new game, appends a
\* GameScreenshot.
ShotTurn ==
    /\ loop.pc = "screenshot"
    /\ IF loop.k > loop.entries
       THEN loop' = [loop EXCEPT !.pc = "screenshotDone"]
       ELSE LET ok == loop.got[loop.k]
                count == IF ok THEN loop.count + 1 ELSE loop.count
            IN loop' = [loop EXCEPT
                          !.maxN = IF ok THEN Max({@, loop.count + 1}) ELSE @,
                          !.count = count,
                          !.screenshots = IF ok /\ loop.new THEN @ + 1 ELSE @,
                          !.k = @ + 1,
                          !.pc = IF CapReached(count) THEN "screenshotDone"
                                 ELSE "screenshot"]
    /\ UNCHANGED <<romFiles, game, pending, scanThread, mpc, runs, fullscan, orch,
                   tasks, unfinished, exitEvent, results, rpc, wvars, lock, spc, stops,
                   stopRaised, states, hist, names>>

ShotInit ==
    /\ names = LibraryNames
    /\ loop \in ShotInputs
    /\ romFiles = {}
    /\ game = {}
    /\ Quiescent

ShotNext == ShotTurn

ShotSpec == ShotInit /\ [][ShotNext]_vars

\* C31: whatever the number of screenshots of the descriptive entry, the
\* index used in the name of a stored screenshot file never exceeds 3 and at
\* most three GameScreenshot rows are attached to the game.
C31_AtMostThreeScreenshots ==
    loop.pc \in {"screenshot", "screenshotDone"} =>
        /\ loop.maxN <= 3
        /\ loop.screenshots <= 3

\* Directories for the enumeration: the file of a ROM without a checksum
\* match has the extension ".ro", ".RO", ".Ro", ".SM" or ".xx", and its path
\* is or is not listed in ignore_roms.
FilterNames ==
    {n \in [Paths -> UNION {{[LibraryNames[p] EXCEPT !.ext = x, !.ignore = g] :
                               x \in {<<".", "r", "o">>, <<".", "R", "O">>,
                                      <<".", "R", "o">>, <<".", "S", "M">>,
                                      <<".", "x", "x">>},
                               g \in BOOLEAN} : p \in Paths}] :
        \A p \in Paths :
            /\ n[p].file = LibraryNames[p].file /\ n[p].entry = LibraryNames[p].entry
            /\ RetroMatch(p) => n[p] = LibraryNames[p]}

\* The scans start from an empty Game table and a directory that holds ROMs
\* without a checksum match.
FilterInit ==
    /\ names \in FilterNames
    /\ loop = NoLoop
    /\ romFiles \in SUBSET {p \in Paths : ~RetroMatch(p)}
    /\ game = {}
    /\ Quiescent

FilterSpec == FilterInit /\ [][Next]_vars

\* C32: when the directory has been enumerated, a file has a task in the
\* queue if and only if its extension equals one of the configured extensions
\* without regard to the case of its letters and its path is not in the
\* ignore list.
C32_KeptIffExtensionAndNotIgnored ==
    rpc = "close" =>
        \A p \in romFiles :
            (\E i \in 1..Len(tasks) : tasks[i] = p) <=>
                /\ \E k \in 1..Len(Extensions) :
                       Upper(names[p].ext) = Upper(Strip(Extensions[k]))
                /\ ~names[p].ignore

\* C33: in a run that is not cancelled, when the reconciliation pass is about
\* to run every Game row whose file got a task that was executed has
\* found = true, and after the pass no such row is among the deleted ones.
C33_ScannedRowsNotDeleted ==
    (~interrupted /\ exitEvent # "set") =>
        /\ rpc = "reconcile" => \A r \in game : r.path \in executed => r.found
        /\ \A r \in deletedRows : r.path \notin executed

\* A run that was not cancelled has ended after executing the task of a known
\* file and inserting the row of a new one.
C33_Witness ==
    /\ rpc = "finished" /\ ~interrupted /\ exitEvent = "clear" /\ deletedRows = {}
    /\ \E r \in game : r.path \in executed /\ r.id \in Ids(pre)
    /\ \E r \in game : r.path \in executed /\ r.id \notin Ids(pre)

\* C34: while the stop flag is set no task begins to execute: a worker that
\* is inside a task was already inside that same task before the step, so the
\* tasks that complete after the flag was set are those that had passed the
\* flag test before, at most one per worker.
C34_NoNewTaskAfterStop ==
    [][exitEvent = "set" =>
          /\ executed' \subseteq executed
          /\ \A w \in Procs :
                wpc'[w] \in TaskPcs => (wpc[w] \in TaskPcs /\ wtask'[w] = wtask[w])]_vars

\* With the stop flag set, one worker is finishing the task it had started
\* and has written its row, while the other task was acknowledged unrun.
C34_Witness ==
    /\ exitEvent = "set"
    /\ \E w \in Procs : wpc[w] = "return" /\ wnew[w] /\ wstate[w] = STATE_ADDED
    /\ acked # {}
    /\ Cardinality(executed) = 1

\* ------------------------------------- the worker pool with database errors
\* The workers of one run taken on their own (RomProcess.run, lines 136-159,
\* from p.start() to the last exit), with a database statement inside a
\* "with self._lock:" block allowed to raise.
\* Positions from which a task enters a locked block next.
WaitPcs == {"lookup", "found", "retro", "name", "insert"}

\* The query or commit of a locked block raises: the lock was acquired, the
\* statement has written nothing, the exception is propagating.
TaskDbError(w) ==
    /\ \/ wpc[w] \in WaitPcs
       \/ wpc[w] \in {"enrich", "back", "shots"} /\ wnew[w] /\ wrow[w] # NoRow
    /\ Acquire(w)
    /\ wpc' = [wpc EXCEPT ![w] = "raising"]
    /\ UNCHANGED <<env, game, pending, orch, tasks, unfinished, exitEvent, results,
                   rpc, wtask, wres, wrow, wnew, wstate, wfront, stopv, states, hist>>

\* The exception leaves the "with" block, which releases the lock, and reaches
\* the worker's except clause: a RomTaskResult(STATE_FAILED) is put on the
\* result queue and the task is acknowledged.
TaskUnwind(w) ==
    /\ TaskStep(w, "raising", "get")
    /\ Release(w)
    /\ results' = Append(results, TaskResult)
    /\ unfinished' = unfinished - 1
    /\ raisedCnt' = raisedCnt + 1
    /\ UNCHANGED <<env, game, pending, orch, tasks, exitEvent, rpc, wtask, wres, wrow,
                   wnew, wstate, wfront, stopv, states, pre, executed, acked,
                   deletedRows, stopsAtCreate, cleanPrev, fsChanged, stopIdle>>

\* The state right after p.start(): the tasks of the kept files and the pills
\* are queued, the stop flag is clear or already set, every worker is about to
\* pull.
PoolInit ==
    /\ names = LibraryNames
    /\ loop = NoLoop
    /\ romFiles \in SUBSET Paths
    /\ \E S \in SUBSET Paths : game = ScannedLibrary(S)
    /\ pending = FALSE
    /\ scanThread = TRUE
    /\ mpc = "loop"
    /\ runs = 1
    /\ fullscan \in BOOLEAN
    /\ started = TRUE /\ done = FALSE /\ processStarted = TRUE
    /\ exitEvent \in {"clear", "set"}
    /\ interrupted = (exitEvent = "set")
    /\ romTotal = Cardinality(Kept(romFiles))
    /\ added = 0 /\ updated = 0 /\ skipped = 0 /\ failed = 0 /\ deleted = 0
    /\ progressMessage = "Found ROMs"
    /\ tasks = SeqOf(Kept(romFiles)) \o Pills(RomProcessTotal)
    /\ unfinished = Len(tasks)
    /\ results = <<>>
    /\ rpc = "join"
    /\ wpc = [w \in Procs |-> "get"]
    /\ wtask = [w \in Procs |-> Pill]
    /\ wres = [w \in Procs |-> ZeroResult]
    /\ wrow = [w \in Procs |-> NoRow]
    /\ wnew = [w \in Procs |-> TRUE]
    /\ wstate = [w \in Procs |-> STATE_FAILED]
    /\ wfront = [w \in Procs |-> "none"]
    /\ lock = 0
    /\ spc = "idle" /\ stops = (IF exitEvent = "set" THEN 1 ELSE 0) /\ stopRaised = FALSE
    /\ states = <<"started", "update">>
    /\ pre = game /\ executed = {} /\ acked = {} /\ raisedCnt = 0 /\ deletedRows = {}
    /\ stopsAtCreate = 0 /\ cleanPrev = FALSE /\ fsChanged = FALSE /\ stopIdle = FALSE

PoolNext == \E w \in Procs : Worker(w) \/ TaskDbError(w) \/ TaskUnwind(w)

\* Every worker process keeps being scheduled; a database error is never
\* bound to happen.
PoolSpec ==
    /\ PoolInit /\ [][PoolNext]_vars
    /\ \A w \in Procs : WF_vars(Worker(w) \/ TaskUnwind(w))

\* C35: a worker never holds the lock when its task has returned or raised or
\* while it is between tasks, and under fair scheduling a worker that is
\* about to enter a locked block eventually holds the lock, also when tasks
\* raise inside locked blocks.
C35_LockReleasedAndAcquired ==
    /\ [](\A w \in Procs : wpc[w] \in {"return", "get", "check", "exited"} => lock # w)
    /\ \A w \in Procs : (wpc[w] \in WaitPcs) ~> (lock = w)

\* One worker has raised inside a locked block and still holds the lock while
\* the other is about to enter a locked block.
C35_Witness ==
    \E w, v \in Procs :
        /\ wpc[w] = "raising" /\ lock = w
        /\ wpc[v] \in WaitPcs

\* Catalogs for the cover art: the descriptive entry paired with a checksum
\* match has front cover URLs or has none.
ArtNames ==
    {n \in [Paths -> UNION {{[LibraryNames[p] EXCEPT !.front = b] : b \in BOOLEAN} :
                               p \in Paths}] :
        \A p \in Paths :
            /\ n[p].file = LibraryNames[p].file /\ n[p].entry = LibraryNames[p].entry
            /\ ~RetroMatch(p) => n[p] = LibraryNames[p]}

\* The scans start from an empty Game table.
ArtInit ==
    /\ names \in ArtNames
    /\ loop = NoLoop
    /\ romFiles \in SUBSET Paths
    /\ game = {}
    /\ Quiescent

ArtSpec == ArtInit /\ [][Next]_vars

\* C36: when a task is about to return Added, the Game row it created has a
\* coverartFront that is not NULL: the path of a downloaded image or the
\* console's default no-art path.
C36_AddedRowHasFrontArt ==
    \A w \in Procs :
        (wpc[w] = "return" /\ wstate[w] = STATE_ADDED) =>
            RowOf(game, wrow[w]).coverartFront \in {ArtPath, Nocoverart}

\* Catalogs for the platform: the entry of a path without a checksum match
\* either does not match the file by name or matches it, and it belongs to the
\* console's platform or to another one.
PlatformPairs(p) ==
    {[x EXCEPT !.platform = pl] :
        x \in {LibraryNames[p],
               [LibraryNames[p] EXCEPT !.file = <<"R", Digit(p)>>,
                                       !.entry = <<"r", " ", Digit(p)>>]},
        pl \in {ConsoleGamesDbId, ConsoleGamesDbId + 1}}

PlatformNames ==
    {n \in [Paths -> UNION {PlatformPairs(p) : p \in Paths}] :
        \A p \in Paths : IF RetroMatch(p) THEN n[p] = LibraryNames[p]
                                          ELSE n[p] \in PlatformPairs(p)}

\* The scans start from an empty Game table and the files scanned have no
\* checksum match.
PlatformInit ==
    /\ names \in PlatformNames
    /\ loop = NoLoop
    /\ romFiles \in SUBSET {p \in Paths : ~RetroMatch(p)}
    /\ game = {}
    /\ Quiescent

PlatformSpec == PlatformInit /\ [][Next]_vars

\* C37: every Game row tied to a descriptive entry references an entry of the
\* console's platform: the entry's platformId equals Console.gamesDbId.
C37_EntryOfConsolePlatform ==
    \A r \in game :
        r.gamesDbId # 0 => names[r.gamesDbId].platform = ConsoleGamesDbId

====
